---- MODULE Spec2Model ----
(***************************************************************************)
(* Raster-to-vector pipeline of recreate_kolam/main.py: the path tracer    *)
(* (find_endpoints_junctions, trace_path_from_point,                       *)
(* extract_paths_from_skeleton) and the stages around it.                  *)
(*                                                                         *)
(* Pixels are <<x, y>> pairs as in the code (skel[y, x]).  A numpy array   *)
(* of points is a record [dtype, pts]: an int64 array holds pixel          *)
(* coordinates, a float64 array (what measure.find_contours returns)       *)
(* holds fixed-point coordinates in units of 1/Unit pixel.                 *)
(*                                                                         *)
(* Two more parts of the process are modelled beside the pipeline: the     *)
(* figures of matplotlib.pyplot that visualize_processing_steps draws on   *)
(* when two threads run image_to_svg, and the ConnectionManager of         *)
(* kolam_rag/websocket_server.py with the handlers of its websockets.      *)
(***************************************************************************)
EXTENDS Integers, Sequences, FiniteSets, TLC

VARIABLES request, image, bw, bw_cleaned, shape, skel, pc, start_points, i,
          visited, queue, path, paths, contours, j, path_index, epsilon, closed,
          simplified_paths, smoothed_paths, paths_svg, temp_files,
          paths_count, status,
          t_pc, t_debug, figs,
          active_connections, user_sessions, ws_pc, ws_client, ws_open,
          latest, lost

\* the locals of image_to_svg lines 332-335 and of simplify_path
post == <<path_index, epsilon, closed, simplified_paths, smoothed_paths>>

\* one invocation of image_to_svg, the files in TEMP_DIR left aside
pipeline == <<request, image, bw, bw_cleaned, shape, skel, pc, start_points, i,
              visited, queue, path, paths, contours, j, post, paths_svg,
              paths_count, status>>

\* the threads that run visualize_processing_steps and the figures of
\* matplotlib.pyplot, which the process has once
pyplot == <<t_pc, t_debug, figs>>

\* the ConnectionManager of kolam_rag/websocket_server.py and the handlers
\* of its websocket endpoint
manager == <<active_connections, user_sessions, ws_pc, ws_client, ws_open,
             latest, lost>>

vars == <<pipeline, temp_files, pyplot, manager>>

(* ---------------------------- bounds --------------------------------- *)
\* lengths of the strokes drawn in the input skeletons go up to
\* ContourMin + MaxExtra pixels
MaxExtra == 1
\* number of distinct left margins tried for a stroke (0 .. MaxMargin)
MaxMargin == 1
\* number of rows of the pixel grid
GridH == 5
\* uniform images of 1..MaxBlankW by 1..MaxBlankH pixels
MaxBlankW == 18
MaxBlankH == 4
\* number of points of the paths given to simplify_path on their own
MaxPathLen == 4
\* size of the thresholded images
MaskW == 14
MaskH == 6

(* ------------------------ program constants -------------------------- *)
min_length == 10        \* trace_path_from_point(min_length=10)
ContourMin == 20        \* len(contour) > 20
DedupMax == 5           \* shared pixels tolerated between two paths
ClosedDist == 5         \* norm(path[0] - path[-1]) < 5
SimplifyTolerance == 8  \* simplify_path(p, tolerance=0.8), in tenths of a pixel
FgValue == 255          \* skeleton.astype(np.uint8) * 255
\* find_contours(skel, 0.5): the crossing between a 0 pixel and a 255 pixel
\* lies (0.5 - 0) / (255 - 0) = 1/510 of a pixel away from the 0 pixel
Unit == 2 * FgValue

(* --------------------------- helpers --------------------------------- *)
Range(s) == {s[k] : k \in 1..Len(s)}

InGrid(p, shp) == /\ 0 <= p[1] /\ p[1] < shp.w
                  /\ 0 <= p[2] /\ p[2] < shp.h

Abs(n) == IF n < 0 THEN -n ELSE n
Adjacent8(p, q) == p # q /\ Abs(p[1] - q[1]) <= 1 /\ Abs(p[2] - q[2]) <= 1

\* the eight neighbours of p
Around(p) == {<<p[1] + dx, p[2] + dy>> : dx \in {-1, 0, 1}, dy \in {-1, 0, 1}} \ {p}

\* the foreground pixels among the eight neighbours of p
TrueNeighbors(sk, p) == Around(p) \cap sk

\* the 8-connected component of p in sk: the pixels found so far and the
\* ones found last
RECURSIVE Grow(_, _, _)
Grow(sk, found, frontier) ==
    IF frontier = {} THEN found
    ELSE LET reached == {q \in UNION {Around(p) : p \in frontier} :
                            q \in sk /\ q \notin found}
         IN Grow(sk, found \cup reached, reached)
Component(sk, p) == Grow(sk, {p}, {p})

\* RasterBefore for a scan that goes down the columns: increasing x, then
\* increasing y
RasterBefore_ColumnMajor(p, q) ==
    \/ p[1] < q[1]
    \/ p[1] = q[1] /\ p[2] <= q[2]

\* raster scan order of np.where: increasing row y, then increasing column x
RasterBefore(p, q) ==
    \/ p[2] < q[2]
    \/ p[2] = q[2] /\ p[1] <= q[1]

RECURSIVE RasterSeq(_)
RasterSeq(S) ==
    IF S = {} THEN <<>>
    ELSE LET m == CHOOSE p \in S : \A q \in S : RasterBefore(p, q)
         IN <<m>> \o RasterSeq(S \ {m})

\* cv2.filter2D default border BORDER_REFLECT_101: index -1 reads index 1,
\* index len reads index len - 2 (a single row or column reads itself)
Reflect101(k, len) ==
    IF len = 1 THEN 0
    ELSE IF k < 0 THEN -k
    ELSE IF k >= len THEN 2 * len - 2 - k
    ELSE k

\* the eight offsets, in the order of `directions`
directions == << <<-1, -1>>, <<0, -1>>, <<1, -1>>,
                 <<-1, 0>>,             <<1, 0>>,
                 <<-1, 1>>,  <<0, 1>>,  <<1, 1>> >>

\* value of the convolution with the 3x3 kernel [[1,1,1],[1,10,1],[1,1,1]]
neighbor_count(sk, shp, p) ==
    LET bit(q) == IF q \in sk THEN 1 ELSE 0
        at(d)  == bit(<<Reflect101(p[1] + directions[d][1], shp.w),
                        Reflect101(p[2] + directions[d][2], shp.h)>>)
    IN 10 * bit(p) + at(1) + at(2) + at(3) + at(4)
                   + at(5) + at(6) + at(7) + at(8)

AllPixels(shp) == (0..(shp.w - 1)) \X (0..(shp.h - 1))

\* find_endpoints_junctions: endpoints (value 11) and junctions (>= 13)
find_endpoints(sk, shp) ==
    RasterSeq({p \in AllPixels(shp) : neighbor_count(sk, shp, p) = 11})

find_junctions(sk, shp) ==
    RasterSeq({p \in AllPixels(shp) : neighbor_count(sk, shp, p) >= 13})

(* ---------------------- numpy arrays of points ----------------------- *)
IntArray(pts) == [dtype |-> "int64", pts |-> pts]
FloatArray(pts) == [dtype |-> "float64", pts |-> pts]
Float32Array(pts) == [dtype |-> "float32", pts |-> pts]

\* numeric value of point k of an array, in units of 1/Unit pixel
Value(arr, k) ==
    IF arr.dtype = "int64"
    THEN <<Unit * arr.pts[k][1], Unit * arr.pts[k][2]>>
    ELSE arr.pts[k]

\* a coordinate c / Unit is a binary fraction (a multiple of 1/2) or it has
\* no finite binary expansion; in the second case the float64 nearest to
\* it is no float32, and astype(np.float32) moves it
Float32Exact(c) == c % (Unit \div 2) = 0

\* what the array stores for point k: the value, and for each coordinate
\* whether it carries a float32 rounding error
Stored(arr, k) ==
    LET v == Value(arr, k)
        err(c) == IF arr.dtype = "float32" /\ ~Float32Exact(c) THEN 1 ELSE 0
    IN <<v, <<err(v[1]), err(v[2])>> >>

\* set(map(tuple, path))
TupleSet(arr) == {Value(arr, k) : k \in 1..Len(arr.pts)}


(* ------------------- measure.find_contours(skel, 0.5) ----------------- *)
\* the point where the iso-line crosses the grid edge between pixels p and q
\* (one on, one off), as <<row, col>> in units of 1/Unit pixel
CrossPt(sk, e) ==
    LET f == IF e[1] \in sk THEN e[1] ELSE e[2]
        b == IF e[1] \in sk THEN e[2] ELSE e[1]
    IN <<Unit * b[2] + (f[2] - b[2]), Unit * b[1] + (f[1] - b[1])>>

\* marching squares on the 2x2 cell whose upper left pixel is c: a cell cut
\* by two edges holds one segment; a saddle cell (four edges cut) holds two,
\* each one cutting off an `on' corner (fully_connected='low': pixels above
\* the level are only face connected)
CellSegments(sk, c) ==
    LET ul == c
        ur == <<c[1] + 1, c[2]>>
        ll == <<c[1], c[2] + 1>>
        lr == <<c[1] + 1, c[2] + 1>>
        edges == {<<ul, ur>>, <<ur, lr>>, <<ll, lr>>, <<ul, ll>>}
        cut == {e \in edges : (e[1] \in sk) # (e[2] \in sk)}
    IN IF Cardinality(cut) = 2
       THEN {{CrossPt(sk, e) : e \in cut}}
       ELSE IF Cardinality(cut) = 4
       THEN {{CrossPt(sk, e) : e \in {d \in cut : d[1] = k \/ d[2] = k}} :
                k \in {ul, ur, ll, lr} \cap sk}
       ELSE {}

ContourSegments(sk, shp) ==
    UNION {CellSegments(sk, c) : c \in (0..(shp.w - 2)) \X (0..(shp.h - 2))}

Linked(segs, p) == {q \in UNION segs : q # p /\ {p, q} \in segs}

\* row-major order on contour points
RowMajorBefore(p, q) == \/ p[1] < q[1]
                        \/ p[1] = q[1] /\ p[2] <= q[2]

MinPoint(S) == CHOOSE p \in S : \A q \in S : RowMajorBefore(p, q)

\* follow the segments from the last point of seq until the chain ends
RECURSIVE FollowChain(_, _)
FollowChain(segs, seq) ==
    LET nxt == Linked(segs, seq[Len(seq)]) \ Range(seq)
    IN IF nxt = {} THEN seq
       ELSE FollowChain(segs, Append(seq, MinPoint(nxt)))

\* one contour: an open contour runs between two points on the array border,
\* a closed one repeats its first point at the end
ContourFrom(segs, s) ==
    LET chain == FollowChain(segs, <<s>>)
    IN IF Len(chain) > 2 /\ {chain[1], chain[Len(chain)]} \in segs
       THEN Append(chain, chain[1])
       ELSE chain

RECURSIVE AssembleContours(_, _)
AssembleContours(segs, rest) ==
    IF rest = {} THEN <<>>
    ELSE LET ends == {p \in rest : Cardinality(Linked(segs, p)) < 2}
             s == IF ends # {} THEN MinPoint(ends) ELSE MinPoint(rest)
             c == ContourFrom(segs, s)
         IN <<c>> \o AssembleContours(segs, rest \ Range(c))

find_contours(sk, shp) ==
    LET segs == ContourSegments(sk, shp)
    IN AssembleContours(segs, UNION segs)

\* np.column_stack([contour[:, 1], contour[:, 0]]): (row, col) to (x, y)
RECURSIVE ColumnStackXY(_)
ColumnStackXY(contour) ==
    IF contour = <<>> THEN <<>>
    ELSE <<<<Head(contour)[2], Head(contour)[1]>>>> \o ColumnStackXY(Tail(contour))

\* lines 168-172: no retained path shares more than DedupMax points with it
is_new(arr, retained) ==
    \A k \in 1..Len(retained) :
        Cardinality(TupleSet(arr) \cap TupleSet(retained[k])) <= DedupMax

(* ---------------------------- simplify_path -------------------------- *)
\* m <= scale * sqrt(len2) for naturals, without leaving 32 bits: with
\* m = scale * q + r the test is 2 * scale * q * r + r * r
\*   <= scale * scale * (len2 - q * q)
LeqScaledSqrt(m, scale, len2) ==
    LET q == m \div scale
        r == m % scale
    IN IF q > 40000 THEN FALSE
       ELSE LET D == len2 - q * q
            IN IF D < 0 THEN FALSE
               ELSE IF D >= 2 * q + 1 THEN TRUE
               ELSE LET diff == scale * D - 2 * q * r
                    IN IF diff < 0 THEN FALSE
                       ELSE IF diff >= scale THEN TRUE
                       ELSE scale * diff >= r * r

Dist2(a, b) == (a[1] - b[1]) * (a[1] - b[1]) + (a[2] - b[2]) * (a[2] - b[2])

\* cv2.approxPolyDP, stage 3: fabs((pt.y - start.y) * dx - (pt.x - start.x) * dy)
LineDist(a, b, pt) ==
    Abs((pt[2] - a[2]) * (b[1] - a[1]) - (pt[1] - a[1]) * (b[2] - a[2]))

\* the first point strictly between a and b that is farthest from the line
\* through src[a] and src[b], as <<index, distance>>
RECURSIVE MaxScan(_, _, _, _, _, _)
MaxScan(src, a, b, pos, best, max_dist) ==
    IF pos >= b THEN <<best, max_dist>>
    ELSE LET dist == LineDist(src[a], src[b], src[pos])
         IN IF dist > max_dist
            THEN MaxScan(src, a, b, pos + 1, pos, dist)
            ELSE MaxScan(src, a, b, pos + 1, best, max_dist)

\* stage 3, the slice a..b: its start point alone when every point between
\* is within eps of the chord, else the two halves at the farthest point
\* (eps is in units of 1/Unit pixel)
RECURSIVE Slice(_, _, _, _)
Slice(src, a, b, eps) ==
    IF b <= a + 1 THEN <<src[a]>>
    ELSE LET far == MaxScan(src, a, b, a + 1, a, 0)
         IN IF LeqScaledSqrt(far[2], eps, Dist2(src[a], src[b]))
            THEN <<src[a]>>
            ELSE Slice(src, a, far[1], eps) \o Slice(src, far[1], b, eps)

\* stage 1, one iteration: the offset j in 1..count-1 of the first point
\* farthest from src[start], as <<offset, squared distance>>
RECURSIVE FarScan(_, _, _, _, _)
FarScan(src, start, jj, best, max_dist) ==
    IF jj >= Len(src) THEN <<best, max_dist>>
    ELSE LET dist == Dist2(src[((start + jj) % Len(src)) + 1], src[start + 1])
         IN IF dist > max_dist
            THEN FarScan(src, start, jj + 1, jj, dist)
            ELSE FarScan(src, start, jj + 1, best, max_dist)

\* stage 1: init_iters times, go to the farthest point and look again;
\* <<start position, offset of the farthest point, squared distance>>
RECURSIVE FarthestPair(_, _, _, _)
FarthestPair(src, pos, right_start, init_iters) ==
    LET start == (pos + right_start) % Len(src)
        far == FarScan(src, start, 1, right_start, 0)
    IN IF init_iters <= 1 THEN <<start, far[1], far[2]>>
       ELSE FarthestPair(src, start, far[1], init_iters - 1)

\* stages 1-3 for a closed curve: one point when the whole curve is within
\* eps of the start, else the two slices between the two far points
ClosedSlices(src, eps, init_iters) ==
    LET count == Len(src)
        fp == FarthestPair(src, 0, 0, init_iters)
        cyc == [n \in 1..(count + 1) |-> src[((fp[1] + n - 1) % count) + 1]]
    IN IF fp[3] <= eps * eps THEN <<src[fp[1] + 1]>>
       ELSE Slice(cyc, 1, fp[2] + 1, eps) \o Slice(cyc, fp[2] + 1, count + 1, eps)

\* stage 4, the loop: a point within eps / sqrt(2) of the line through its
\* neighbours, on a stretch that is neither horizontal nor vertical and
\* does not turn back, is dropped; <<dst, new_count, wpos, pt>>
RECURSIVE CleanLoop(_, _, _, _, _, _, _, _, _)
CleanLoop(dst, new_count, start_pt, pt, pos, wpos, ii, is_closed, eps) ==
    LET count == Len(dst)
        limit == IF is_closed THEN count ELSE count - 1
    IN IF ~(ii < limit /\ new_count > 2) THEN <<dst, new_count, wpos, pt>>
       ELSE LET end_pt == dst[pos + 1]
                pos1 == (pos + 1) % count
                wpos1 == (wpos + 1) % count
                dx == end_pt[1] - start_pt[1]
                dy == end_pt[2] - start_pt[2]
                dist == Abs((pt[1] - start_pt[1]) * dy - (pt[2] - start_pt[2]) * dx)
                successive_inner_product ==
                    (pt[1] - start_pt[1]) * (end_pt[1] - pt[1])
                      + (pt[2] - start_pt[2]) * (end_pt[2] - pt[2])
            IN IF /\ dx # 0 /\ dy # 0
                  /\ successive_inner_product >= 0
                  /\ LeqScaledSqrt(2 * dist, eps, 2 * (dx * dx + dy * dy))
               THEN LET dst1 == [dst EXCEPT ![wpos + 1] = end_pt]
                    IN CleanLoop(dst1, new_count - 1, end_pt, dst1[pos1 + 1],
                                 (pos1 + 1) % count, wpos1, ii + 2, is_closed, eps)
               ELSE CleanLoop([dst EXCEPT ![wpos + 1] = pt], new_count, pt, end_pt,
                              pos1, wpos1, ii + 1, is_closed, eps)

\* stage 4
CleanUp(dst, is_closed, eps) ==
    LET count == Len(dst)
        pos0 == IF is_closed THEN count - 1 ELSE 0
        pos1 == (pos0 + 1) % count
        r == CleanLoop(dst, count, dst[pos0 + 1], dst[pos1 + 1], (pos1 + 1) % count,
                       pos1, IF is_closed THEN 0 ELSE 1, is_closed, eps)
        out == IF is_closed THEN r[1] ELSE [r[1] EXCEPT ![r[3] + 1] = r[4]]
    IN SubSeq(out, 1, r[2])

\* approxPolyDP without the last WRITE_PT of an open curve: the end point
\* is left out
approxPolyDP_NoLastPoint(src, eps, is_closed) ==
    IF src = <<>> THEN <<>>
    ELSE LET count == Len(src)
             dst == IF is_closed THEN ClosedSlices(src, eps, 3)
                    ELSE IF src[1] = src[count] THEN ClosedSlices(src, eps, 1)
                    ELSE Slice(src, 1, count, eps)
         IN CleanUp(dst, is_closed, eps)

\* cv2.approxPolyDP(curve, epsilon, closed) on a sequence of points; an open
\* curve whose ends coincide is sliced as a closed one
approxPolyDP(src, eps, is_closed) ==
    IF src = <<>> THEN <<>>
    ELSE LET count == Len(src)
             dst == IF is_closed THEN ClosedSlices(src, eps, 3)
                    ELSE IF src[1] = src[count] THEN ClosedSlices(src, eps, 1)
                    ELSE Slice(src, 1, count, eps) \o <<src[count]>>
         IN CleanUp(dst, is_closed, eps)

\* IsClosed with <= in line 192: a distance of exactly ClosedDist closes
\* the path
IsClosed_Inclusive(arr) ==
    LET a == Value(arr, 1)
        b == Value(arr, Len(arr.pts))
    IN (a[1] - b[1]) * (a[1] - b[1]) + (a[2] - b[2]) * (a[2] - b[2])
          <= (ClosedDist * Unit) * (ClosedDist * Unit)

\* simplify_path line 192: first and last point less than ClosedDist apart
IsClosed(arr) ==
    LET a == Value(arr, 1)
        b == Value(arr, Len(arr.pts))
    IN (a[1] - b[1]) * (a[1] - b[1]) + (a[2] - b[2]) * (a[2] - b[2])
          < (ClosedDist * Unit) * (ClosedDist * Unit)

\* a tolerance in tenths of a pixel, in units of 1/Unit pixel
EpsUnits(tolerance) == (tolerance * Unit) \div 10

\* path.astype(np.float32)
AsFloat32(arr) == Float32Array([n \in 1..Len(arr.pts) |-> Value(arr, n)])

\* simplify_path(path, tolerance), lines 179-197
simplify_path(arr, tolerance) ==
    IF Len(arr.pts) < 3 THEN arr
    ELSE Float32Array(approxPolyDP(AsFloat32(arr).pts, EpsUnits(tolerance),
                                   IsClosed(arr)))

(* ----------------------------- smooth_path --------------------------- *)
\* lines 206-209: a point equal to the one before it is dropped
RECURSIVE unique_points(_, _)
unique_points(arr, n) ==
    IF n > Len(arr.pts) THEN <<>>
    ELSE IF n > 1 /\ Stored(arr, n) = Stored(arr, n - 1)
         THEN unique_points(arr, n + 1)
         ELSE <<Value(arr, n)>> \o unique_points(arr, n + 1)

\* lines 216-220: the spline is fitted and sampled inside the try block;
\* np.linspace rejects a negative number of samples
SplineRaises(num_points) == num_points < 0

\* whether smooth_path gets as far as the try block with this path
SplineTried(arr) ==
    Len(arr.pts) >= 4 /\ Len(unique_points(arr, 1)) >= 4

\* SplineSamples with np.linspace(..., endpoint=False)-like sampling that
\* leaves the last parameter value out
SplineSamples_OneShort(num_points) ==
    [dtype |-> "splev", pts |-> [m \in 1..(num_points - 1) |-> m]]

\* what splev returns: one point per parameter value of u_fine; the points
\* stand for the curve at parameter (m - 1) / (num_points - 1), their
\* coordinates are not computed
SplineSamples(num_points) ==
    [dtype |-> "splev", pts |-> [m \in 1..num_points |-> m]]

Min(a, b) == IF a < b THEN a ELSE b

RECURSIVE SumX(_, _, _)
SumX(pts, a, b) == IF a > b THEN 0 ELSE pts[a][1] + SumX(pts, a + 1, b)
RECURSIVE SumY(_, _, _)
SumY(pts, a, b) == IF a > b THEN 0 ELSE pts[a][2] + SumY(pts, a + 1, b)

\* MovingAverage with mode='same': one output point per input point, the
\* window cut off at the two ends
MovingAverage_Same(pts, window_size) ==
    [dtype |-> "float64",
     pts |-> [n \in 1..Len(pts) |->
                <<SumX(pts, n, Min(Len(pts), n + window_size - 1)),
                  SumY(pts, n, Min(Len(pts), n + window_size - 1))>>],
     den |-> window_size]

\* lines 223-228: np.convolve(x, np.ones(w) / w, mode='valid'); the window
\* sums are kept, the coordinates are pts / (den * Unit)
MovingAverage(pts, window_size) ==
    [dtype |-> "float64",
     pts |-> [n \in 1..(Len(pts) - window_size + 1) |->
                <<SumX(pts, n, n + window_size - 1), SumY(pts, n, n + window_size - 1)>>],
     den |-> window_size]

\* smooth_path(path, smoothing, num_points), lines 199-231
smooth_path(arr, num_points) ==
    IF ~SplineTried(arr) THEN arr
    ELSE IF ~SplineRaises(num_points) THEN SplineSamples(num_points)
    ELSE LET unique == unique_points(arr, 1)
             window_size == Min(5, Len(unique) \div 2)
         IN IF window_size > 1 THEN MovingAverage(unique, window_size) ELSE arr

(* ------------------------ paths_to_svg_string ------------------------ *)
\* point m of a smoothed path as it is written into the path data: the
\* stored value, the window sum with its divisor for a moving average, the
\* sample number for a spline
SvgPoint(arr, m) ==
    IF arr.dtype = "splev" THEN <<"u", arr.pts[m]>>
    ELSE IF "den" \in DOMAIN arr THEN <<arr.pts[m], arr.den>>
    ELSE Stored(arr, m)

\* PathData that joins every point with " L ", the first one included
PathData_AllLines(arr) ==
    [m \in 1..Len(arr.pts) |-> [cmd |-> "L", at |-> SvgPoint(arr, m)]]

\* line 272: "M " + " L ".join(...), one command per point
PathData(arr) ==
    [m \in 1..Len(arr.pts) |->
        [cmd |-> IF m = 1 THEN "M" ELSE "L", at |-> SvgPoint(arr, m)]]

\* lines 264-283: a path element for every path of 2 points or more
RECURSIVE paths_to_svg_string(_)
paths_to_svg_string(ps) ==
    IF ps = <<>> THEN <<>>
    ELSE IF Len(Head(ps).pts) < 2 THEN paths_to_svg_string(Tail(ps))
    ELSE <<[d |-> PathData(Head(ps)), stroke |-> "black", fill |-> "none"]>>
            \o paths_to_svg_string(Tail(ps))

(* -------------------------- preprocess_image ------------------------- *)
\* cv2.adaptiveThreshold(..., THRESH_BINARY, 21, 7): a pixel is on when it
\* is brighter than its neighbourhood mean minus AdaptiveC
AdaptiveC == 7
MinArea == 50           \* sizes[i-1] >= 50

ThresholdBinary(src, mean) == IF src - mean > -AdaptiveC THEN FgValue ELSE 0

\* lines 44-51 on an image of one gray level: the bilateral filter and the
\* Gaussian mean of a uniform image are that gray level
ThresholdUniform(gray, shp) ==
    {p \in AllPixels(shp) : ThresholdBinary(gray, gray) = FgValue}

\* NormalizePolarity with white_frac <= 0.5
NormalizePolarity_Inclusive(mask, shp) ==
    IF 2 * Cardinality(mask) <= Cardinality(AllPixels(shp))
    THEN AllPixels(shp) \ mask
    ELSE mask

\* lines 54-56: white_frac < 0.5 inverts the mask
NormalizePolarity(mask, shp) ==
    IF 2 * Cardinality(mask) < Cardinality(AllPixels(shp))
    THEN AllPixels(shp) \ mask
    ELSE mask

\* cv2.dilate / cv2.erode with the 2x2 kernel of ones and the default
\* anchor; pixels outside the image never win the max or the min
Dilate2x2(mask, shp) ==
    {p \in AllPixels(shp) :
        \E dx, dy \in {0, 1} : <<p[1] + dx, p[2] + dy>> \in mask}

Erode2x2(mask, shp) ==
    {p \in AllPixels(shp) :
        \A dx, dy \in {-1, 0} :
            LET q == <<p[1] + dx, p[2] + dy>>
            IN InGrid(q, shp) => q \in mask}

\* lines 59-61: MORPH_CLOSE then MORPH_OPEN
MorphClose(mask, shp) == Erode2x2(Dilate2x2(mask, shp), shp)
MorphOpen(mask, shp) == Dilate2x2(Erode2x2(mask, shp), shp)

\* the 8-connected components of a mask
RECURSIVE Components(_)
Components(mask) ==
    IF mask = {} THEN {}
    ELSE LET c == Component(mask, CHOOSE p \in mask : TRUE)
         IN {c} \cup Components(mask \ c)

\* RemoveSmall with sizes[i-1] > 50: a component of exactly MinArea pixels
\* is dropped too
RemoveSmall_Strict(mask) ==
    UNION {c \in Components(mask) : Cardinality(c) > MinArea}

\* lines 64-69: components under MinArea pixels are dropped
RemoveSmall(mask) ==
    UNION {c \in Components(mask) : Cardinality(c) >= MinArea}

(* ---------------------------- get_skeleton --------------------------- *)
\* skimage.morphology.thin: the neighbours of p as bits 0..7, going
\* counterclockwise from the east neighbour; outside the image is 0
ThinRing == << <<1, 0>>, <<1, -1>>, <<0, -1>>, <<-1, -1>>,
               <<-1, 0>>, <<-1, 1>>, <<0, 1>>, <<1, 1>> >>

ThinBit(mask, p, k) ==
    <<p[1] + ThinRing[(k % 8) + 1][1], p[2] + ThinRing[(k % 8) + 1][2]>> \in mask

ThinG1(mask, p) ==
    Cardinality({k \in {0, 2, 4, 6} :
        ~ThinBit(mask, p, k)
            /\ (ThinBit(mask, p, k + 1) \/ ThinBit(mask, p, k + 2))}) = 1

ThinG2(mask, p) ==
    LET n1 == Cardinality({k \in {1, 3, 5, 7} :
                  ThinBit(mask, p, k) \/ ThinBit(mask, p, k - 1)})
        n2 == Cardinality({k \in {1, 3, 5, 7} :
                  ThinBit(mask, p, k) \/ ThinBit(mask, p, k + 1)})
    IN (IF n1 < n2 THEN n1 ELSE n2) \in {2, 3}

ThinG3(mask, p) ==
    ~((ThinBit(mask, p, 1) \/ ThinBit(mask, p, 2) \/ ~ThinBit(mask, p, 7))
        /\ ThinBit(mask, p, 0))

ThinG3p(mask, p) ==
    ~((ThinBit(mask, p, 5) \/ ThinBit(mask, p, 6) \/ ~ThinBit(mask, p, 3))
        /\ ThinBit(mask, p, 4))

\* one pass of the loop: the two sub-iterations, each deleting in parallel
ThinPass(mask) ==
    LET m1 == {p \in mask : ~(ThinG1(mask, p) /\ ThinG2(mask, p) /\ ThinG3(mask, p))}
    IN {p \in m1 : ~(ThinG1(m1, p) /\ ThinG2(m1, p) /\ ThinG3p(m1, p))}

\* iterate until a pass deletes nothing
RECURSIVE thin(_)
thin(mask) ==
    LET m == ThinPass(mask)
    IN IF Cardinality(m) = Cardinality(mask) THEN m ELSE thin(m)

(* ------------------------- input skeletons --------------------------- *)
HRun(y, x1, x2) == {<<x, y>> : x \in x1..x2}
VRun(x, y1, y2) == {<<x, y>> : y \in y1..y2}

\* the grid is wide enough for two strokes and the gap between them
GridW == MaxMargin + 3 * (min_length + MaxExtra) + 1
GridShape == [w |-> GridW, h |-> GridH]

Margins == 0..MaxMargin
\* stroke lengths around the two minimum lengths of the tracer
BranchLens == (min_length - 1)..(min_length + MaxExtra)
StrokeLens == {1, 2, min_length - 2} \cup BranchLens
                  \cup ((ContourMin - 2)..(ContourMin + MaxExtra))

\* one straight stroke, on the border row or inside the grid
Lines == {HRun(y, m, m + n - 1) : y \in {0, 1}, m \in Margins, n \in StrokeLens}

\* two strokes on one row with gap background pixels between them
StrokePair(m, n1, gap, n2) ==
    HRun(1, m, m + n1 - 1) \cup HRun(1, m + n1 + gap, m + n1 + gap + n2 - 1)

Pairs == {StrokePair(m, n1, gap, n2) :
            m \in Margins, n1 \in BranchLens, gap \in {1, min_length},
            n2 \in BranchLens}

\* the pairs of Scenario B: both strokes of at least min_length pixels,
\* at least min_length background pixels apart, away from the border
FarPairs == {StrokePair(m, n1, min_length, n2) :
               m \in Margins \ {0},
               n1 \in BranchLens \ {min_length - 1},
               n2 \in BranchLens \ {min_length - 1}}

\* three branches of a, b1 and b2 pixels meeting in the single junction
\* pixel <<m + a, 2>>
Fork(m, a, b1, b2) ==
    HRun(2, m, m + a) \cup HRun(1, m + a + 1, m + a + b1)
                      \cup HRun(3, m + a + 1, m + a + b2)

Forks == {Fork(m, a, b1, b2) :
            m \in Margins, a \in BranchLens, b1 \in BranchLens,
            b2 \in BranchLens}

\* a stroke with a one pixel spur under its pixel k
Tees == {HRun(1, m, m + n - 1) \cup {<<m + k, 2>>} :
            m \in Margins, n \in BranchLens, k \in {0, 4}}

\* a closed loop one pixel wide: a rectangle outline without its corners
Loop(x1, y1, x2, y2) ==
    HRun(y1, x1 + 1, x2 - 1) \cup HRun(y2, x1 + 1, x2 - 1)
        \cup VRun(x1, y1 + 1, y2 - 1) \cup VRun(x2, y1 + 1, y2 - 1)

LoopRuns == {1, min_length - 2} \cup BranchLens

Loops == {Loop(m, y1, m + r + 1, y2) :
            m \in Margins, r \in LoopRuns, y1 \in {0, 1},
            y2 \in {3, GridH - 1}}

\* a stroke from one border of the grid to the opposite one
Spans == {HRun(y, 0, GridW - 1) : y \in {1, 2}}
            \cup {VRun(x, 0, GridH - 1) : x \in {0, 1}}

Skeletons == Lines \cup Pairs \cup Forks \cup Tees \cup Loops \cup Spans

\* the skeleton of an image one pixel high: a single row
RowShape == [w |-> GridW, h |-> 1]
RowSkeletons == {HRun(0, m, m + n - 1) : m \in Margins, n \in {0} \cup BranchLens}

Inputs == {[shape |-> GridShape, skel |-> sk] : sk \in Skeletons}
            \cup {[shape |-> RowShape, skel |-> sk] : sk \in RowSkeletons}

(* -------------------- visualize_processing_steps --------------------- *)
\* the threads that may be inside image_to_svg at the same time
Threads == {1, 2}

\* the three subplots of lines 292-309: binary image, skeleton, paths
Panels == {131, 132, 133}

\* line 329: uuid4 gives every invocation a file name of its own
DebugFile(t) == <<"debug", t>>

\* what a figure shows: the panels drawn on it and the run that drew each
SoloFigure(t) == {<<t, panel>> : panel \in Panels}

\* no thread is inside image_to_svg and pyplot has no figure
PyplotIdle ==
    /\ t_pc = [t \in Threads |-> "done"]
    /\ t_debug = [t \in Threads |-> FALSE]
    /\ figs = <<>>

(* ------------------------- ConnectionManager ------------------------- *)
MaxSockets == 2
MaxQueries == 1

WebSockets == 1..MaxSockets
ClientIds == {"a", "b"}

\* lines 39-40, and no websocket has been opened
ManagerIdle ==
    /\ active_connections = <<>>
    /\ user_sessions = <<>>
    /\ ws_pc = [ws \in WebSockets |-> "closed"]
    /\ ws_client = [ws \in WebSockets |-> "none"]
    /\ ws_open = [ws \in WebSockets |-> FALSE]
    /\ latest = <<>>
    /\ lost = {}

(* ------------------------------ Init --------------------------------- *)
\* the query parameters of POST /convert-image, lines 361-367; FastAPI
\* drops a parameter the handler does not declare, such as tolerance
\* (in tenths of a pixel, 0 when the caller sends none): the request with
\* the defaults, one with a tolerance, a negative num_points and debug on,
\* and one that asks for a single point per path
Requests ==
    {[content_type |-> "image/png", tolerance |-> 0, num_points |-> 200,
      debug |-> FALSE],
     [content_type |-> "image/png", tolerance |-> 20, num_points |-> -1,
      debug |-> TRUE],
     [content_type |-> "image/png", tolerance |-> 0, num_points |-> 1,
      debug |-> FALSE]}

Init ==
    /\ \E inp \in Inputs : shape = inp.shape /\ skel = inp.skel
    /\ request \in Requests
    /\ image = [kind |-> "skeleton", gray |-> 0]
    /\ bw = {}
    /\ bw_cleaned = {}
    /\ pc = "extract_paths"
    /\ start_points = <<>>
    /\ i = 0
    /\ visited = {}
    /\ queue = <<>>
    /\ path = <<>>
    /\ paths = <<>>
    /\ contours = <<>>
    /\ j = 0
    /\ path_index = 0
    /\ epsilon = 0
    /\ closed = FALSE
    /\ simplified_paths = <<>>
    /\ smoothed_paths = <<>>
    /\ paths_svg = <<>>
    /\ temp_files = <<>>
    /\ PyplotIdle
    /\ ManagerIdle
    /\ paths_count = -1
    /\ status = "pending"

(* ------------------- extract_paths_from_skeleton --------------------- *)
\* lines 145-151: the seeds are the endpoints followed by the junctions
FindSeeds ==
    /\ pc = "extract_paths"
    /\ start_points' = find_endpoints(skel, shape) \o find_junctions(skel, shape)
    /\ visited' = {}
    /\ paths' = <<>>
    /\ i' = 1
    /\ pc' = "seed_loop"
    /\ UNCHANGED <<pyplot, manager, paths_svg, temp_files, request, bw_cleaned, post, image, bw, shape, skel, queue, path, contours, j, paths_count, status>>

\* lines 154-155: a seed already claimed by an earlier trace is skipped
SeedSkip ==
    /\ pc = "seed_loop"
    /\ i <= Len(start_points)
    /\ start_points[i] \in visited
    /\ i' = i + 1
    /\ UNCHANGED <<pyplot, manager, paths_svg, temp_files, request, bw_cleaned, post, image, bw, shape, skel, pc, start_points, visited, queue, path,
                   paths, contours, j, paths_count, status>>

\* lines 155-156, 114-115: trace_path_from_point is entered
SeedTrace ==
    /\ pc = "seed_loop"
    /\ i <= Len(start_points)
    /\ start_points[i] \notin visited
    /\ path' = <<>>
    /\ queue' = <<start_points[i]>>
    /\ pc' = "trace"
    /\ UNCHANGED <<pyplot, manager, paths_svg, temp_files, request, bw_cleaned, post, image, bw, shape, skel, start_points, i, visited, paths, contours, j, paths_count, status>>

\* lines 130-134: the unvisited skeleton neighbours of p, in direction order
RECURSIVE Pushes(_, _, _, _, _)
Pushes(sk, shp, vis, p, d) ==
    IF d > Len(directions) THEN <<>>
    ELSE LET n == <<p[1] + directions[d][1], p[2] + directions[d][2]>>
             rest == Pushes(sk, shp, vis, p, d + 1)
         IN IF InGrid(n, shp) /\ n \in sk /\ n \notin vis
            THEN <<n>> \o rest
            ELSE rest

\* TraceStep without visited.add((x, y)): the pixel is collected but never
\* marked
TraceStep_NoMark ==
    /\ pc = "trace"
    /\ queue # <<>>
    /\ LET p == Head(queue)
       IN IF p \in visited \/ ~InGrid(p, shape) \/ p \notin skel
          THEN /\ queue' = Tail(queue)
               /\ UNCHANGED <<visited, path>>
          ELSE /\ visited' = visited
               /\ path' = Append(path, p)
               /\ queue' = Tail(queue) \o Pushes(skel, shape, visited, p, 1)
    /\ UNCHANGED <<pyplot, manager, paths_svg, temp_files, request, bw_cleaned, post, image, bw, shape, skel, pc, start_points, i, paths, contours, j, paths_count, status>>

\* TraceStep with queue[0] in place of queue.popleft(): a pixel that is
\* skipped stays at the head of the queue
TraceStep_NoPop ==
    /\ pc = "trace"
    /\ queue # <<>>
    /\ LET p == Head(queue)
       IN IF p \in visited \/ ~InGrid(p, shape) \/ p \notin skel
          THEN UNCHANGED <<queue, visited, path>>
          ELSE /\ visited' = visited \cup {p}
               /\ path' = Append(path, p)
               /\ queue' = Tail(queue) \o Pushes(skel, shape, visited \cup {p}, p, 1)
    /\ UNCHANGED <<pyplot, manager, paths_svg, temp_files, request, bw_cleaned, post, image, bw, shape, skel, pc, start_points, i, paths, contours, j, paths_count, status>>

\* lines 117-134: one iteration of the while loop
TraceStep ==
    /\ pc = "trace"
    /\ queue # <<>>
    /\ LET p == Head(queue)
       IN IF p \in visited \/ ~InGrid(p, shape) \/ p \notin skel
          THEN /\ queue' = Tail(queue)
               /\ UNCHANGED <<visited, path>>
          ELSE /\ visited' = visited \cup {p}
               /\ path' = Append(path, p)
               /\ queue' = Tail(queue) \o Pushes(skel, shape, visited \cup {p}, p, 1)
    /\ UNCHANGED <<pyplot, manager, paths_svg, temp_files, request, bw_cleaned, post, image, bw, shape, skel, pc, start_points, i, paths, contours, j, paths_count, status>>

\* TraceReturn when the trace works on a copy of visited: the pixels it
\* marked are lost to the caller
TraceReturn_LocalVisited ==
    /\ pc = "trace"
    /\ queue = <<>>
    /\ paths' = IF Len(path) >= min_length
                THEN Append(paths, IntArray(path))
                ELSE paths
    /\ visited' = visited \ Range(path)
    /\ i' = i + 1
    /\ pc' = "seed_loop"
    /\ UNCHANGED <<pyplot, manager, paths_svg, temp_files, request, bw_cleaned, post, image, bw, shape, skel, start_points, queue, path, contours, j, paths_count, status>>

\* lines 136-140, 157-158: only a path of at least min_length points is kept
TraceReturn ==
    /\ pc = "trace"
    /\ queue = <<>>
    /\ paths' = IF Len(path) >= min_length
                THEN Append(paths, IntArray(path))
                ELSE paths
    /\ i' = i + 1
    /\ pc' = "seed_loop"
    /\ UNCHANGED <<pyplot, manager, paths_svg, temp_files, request, bw_cleaned, post, image, bw, shape, skel, start_points, visited, queue, path, contours, j, paths_count, status>>

\* line 161: the seed loop is over; find_contours rejects arrays under 2x2
FindContours ==
    /\ pc = "seed_loop"
    /\ i > Len(start_points)
    /\ IF shape.w < 2 \/ shape.h < 2
       THEN /\ pc' = "raised"
            /\ UNCHANGED <<contours, j>>
       ELSE /\ contours' = find_contours(skel, shape)
            /\ j' = 1
            /\ pc' = "contour_loop"
    /\ UNCHANGED <<pyplot, manager, paths_svg, temp_files, request, bw_cleaned, post, image, bw, shape, skel, start_points, i, visited, queue, path, paths, paths_count, status>>

\* lines 162-175: one iteration of the loop over the contours
ContourNext ==
    /\ pc = "contour_loop"
    /\ j <= Len(contours)
    /\ LET arr == FloatArray(ColumnStackXY(contours[j]))
       IN paths' = IF Len(contours[j]) > ContourMin /\ is_new(arr, paths)
                   THEN Append(paths, arr)
                   ELSE paths
    /\ j' = j + 1
    /\ UNCHANGED <<pyplot, manager, paths_svg, temp_files, request, bw_cleaned, post, image, bw, shape, skel, pc, start_points, i, visited, queue, path,
                   contours, paths_count, status>>

\* line 177
ReturnPaths ==
    /\ pc = "contour_loop"
    /\ j > Len(contours)
    /\ pc' = "debug"
    /\ UNCHANGED <<pyplot, manager, paths_svg, temp_files, request, bw_cleaned, post, image, bw,
                   shape, skel, start_points, i, visited, queue, path, paths,
                   contours, j, paths_count, status>>

\* image_to_svg lines 327-330 and visualize_processing_steps line 313: with
\* debug on, plt.savefig writes a file with a fresh name into TEMP_DIR;
\* nothing in the module removes it
DebugVisualization ==
    /\ pc = "debug"
    /\ temp_files' = IF request.debug
                     THEN DebugFile(1) :> SoloFigure(1)
                     ELSE temp_files
    /\ pc' = "simplify"
    /\ path_index' = 1
    /\ UNCHANGED <<pyplot, manager, paths_svg, request, image, bw, bw_cleaned,
                   shape, skel, start_points, i, visited, queue, path, paths,
                   contours, j, epsilon, closed, simplified_paths,
                   smoothed_paths, paths_count, status>>

\* SimplifyNext with a tolerance parameter handed down from the request
SimplifyNext_CallerTolerance ==
    /\ pc = "simplify"
    /\ path_index <= Len(paths)
    /\ epsilon' = IF request.tolerance # 0 THEN request.tolerance
                  ELSE SimplifyTolerance
    /\ closed' = (Len(paths[path_index].pts) >= 3 /\ IsClosed(paths[path_index]))
    /\ simplified_paths' =
          Append(simplified_paths,
                 simplify_path(paths[path_index],
                               IF request.tolerance # 0 THEN request.tolerance
                               ELSE SimplifyTolerance))
    /\ path_index' = path_index + 1
    /\ UNCHANGED <<pyplot, manager, paths_svg, temp_files, request, image, bw, bw_cleaned, shape, skel, pc, start_points, i,
                   visited, queue, path, paths, contours, j, smoothed_paths,
                   paths_count, status>>

\* image_to_svg line 333, one element of the list comprehension:
\* simplify_path(p, tolerance=0.8), whatever the request says
SimplifyNext ==
    /\ pc = "simplify"
    /\ path_index <= Len(paths)
    /\ epsilon' = SimplifyTolerance
    /\ closed' = (Len(paths[path_index].pts) >= 3 /\ IsClosed(paths[path_index]))
    /\ simplified_paths' =
          Append(simplified_paths, simplify_path(paths[path_index], SimplifyTolerance))
    /\ path_index' = path_index + 1
    /\ UNCHANGED <<pyplot, manager, paths_svg, temp_files, request, image, bw, bw_cleaned, shape, skel, pc, start_points, i,
                   visited, queue, path, paths, contours, j, smoothed_paths,
                   paths_count, status>>

\* line 333: the list comprehension is over
SimplifyDone ==
    /\ pc = "simplify"
    /\ path_index > Len(paths)
    /\ pc' = "smooth"
    /\ path_index' = 1
    /\ UNCHANGED <<pyplot, manager, paths_svg, temp_files, request, image, bw, bw_cleaned, shape, skel, start_points, i,
                   visited, queue, path, paths, contours, j, epsilon, closed,
                   simplified_paths, smoothed_paths, paths_count, status>>

\* SmoothNext without the try/except of smooth_path: the exception of the
\* spline fit leaves image_to_svg
SmoothNext_NoExcept ==
    /\ pc = "smooth"
    /\ path_index <= Len(simplified_paths)
    /\ IF SplineTried(simplified_paths[path_index]) /\ SplineRaises(request.num_points)
       THEN pc' = "raised" /\ UNCHANGED <<smoothed_paths, path_index>>
       ELSE /\ smoothed_paths' =
                  Append(smoothed_paths,
                         smooth_path(simplified_paths[path_index], request.num_points))
            /\ path_index' = path_index + 1
            /\ pc' = pc
    /\ UNCHANGED <<pyplot, manager, paths_svg, temp_files, request, image, bw, bw_cleaned, shape, skel, start_points, i,
                   visited, queue, path, paths, contours, j, epsilon, closed,
                   simplified_paths, paths_count, status>>

\* lines 334-335, one element of the list comprehension
SmoothNext ==
    /\ pc = "smooth"
    /\ path_index <= Len(simplified_paths)
    /\ smoothed_paths' =
          Append(smoothed_paths,
                 smooth_path(simplified_paths[path_index], request.num_points))
    /\ path_index' = path_index + 1
    /\ pc' = pc
    /\ UNCHANGED <<pyplot, manager, paths_svg, temp_files, request, image, bw, bw_cleaned, shape, skel, start_points, i,
                   visited, queue, path, paths, contours, j, epsilon, closed,
                   simplified_paths, paths_count, status>>

\* lines 334-335: the list comprehension is over
SmoothDone ==
    /\ pc = "smooth"
    /\ path_index > Len(simplified_paths)
    /\ pc' = "serialize"
    /\ UNCHANGED <<pyplot, manager, paths_svg, temp_files, request, image, bw, bw_cleaned, shape, skel, start_points, i,
                   visited, queue, path, paths, contours, j, post, paths_count,
                   status>>

\* image_to_svg lines 337-343 and the handler's response, lines 403-414:
\* the smoothed paths are drawn; the count reported is the number of raw
\* paths
Respond ==
    /\ pc = "serialize"
    /\ paths_svg' = paths_to_svg_string(smoothed_paths)
    /\ paths_count' = Len(paths)
    /\ status' = "success"
    /\ pc' = "done"
    /\ UNCHANGED <<pyplot, manager, temp_files, request, bw_cleaned, post, image, bw, shape, skel, start_points, i, visited, queue, path, paths,
                   contours, j>>

\* lines 416-417: except Exception turns whatever was raised inside the try
\* block, an HTTPException included, into a 500 response
RespondError ==
    /\ pc = "raised"
    /\ status' = "error"
    /\ pc' = "done"
    /\ UNCHANGED <<pyplot, manager, paths_svg, temp_files, request, bw_cleaned, post, image, bw, shape, skel, start_points, i, visited, queue, path, paths,
                   contours, j, paths_count>>

(* ===================== properties of the tracer ====================== *)
SeedPaths == {k \in 1..Len(paths) : paths[k].dtype = "int64"}
ContourPaths == {k \in 1..Len(paths) : paths[k].dtype = "float64"}

NoRepeat(seq) == \A a, b \in 1..Len(seq) : a # b => seq[a] # seq[b]

\* the skeleton pixel next to a contour point (the `on' end of the grid
\* edge the point lies on)
OnCoord(c) == IF c % Unit = 1 THEN c \div Unit + 1 ELSE c \div Unit
OnPixel(v) == <<OnCoord(v[1]), OnCoord(v[2])>>

\* C1: the seed-traced paths (the one being traced included) hold no pixel
\* twice and no pixel is in two of them.
C1_SeedPathsDisjoint ==
    /\ \A k \in SeedPaths : NoRepeat(paths[k].pts)
    /\ \A a, b \in SeedPaths :
          a # b => Range(paths[a].pts) \cap Range(paths[b].pts) = {}
    /\ pc = "trace" =>
          /\ NoRepeat(path)
          /\ \A k \in SeedPaths : Range(paths[k].pts) \cap Range(path) = {}

\* two seed-traced paths were retained, and a seed was skipped as visited
C1_Witness ==
    /\ pc = "done"
    /\ Cardinality(SeedPaths) >= 2
    /\ Len(start_points) > Cardinality(SeedPaths)

\* C2: in every retained seed-traced path each point is an 8-neighbour of
\* the point before it.
C2_CurveOrdered ==
    \A k \in SeedPaths :
        \A n \in 2..Len(paths[k].pts) :
            Adjacent8(paths[k].pts[n - 1], paths[k].pts[n])

\* C3: when the skeleton has a single junction pixel and every branch
\* leaving it has at least min_length pixels, the tracer returns one
\* seed-traced path per branch, each inside one branch.
C3_OnePathPerBranch ==
    pc = "done" /\ status = "success" =>
        LET jns == {p \in skel : Cardinality(TrueNeighbors(skel, p)) >= 3}
        IN \A jn \in jns :
             LET branches == {Component(skel \ {jn}, q) :
                                q \in TrueNeighbors(skel, jn)}
             IN (jns = {jn} /\ \A B \in branches : Cardinality(B) >= min_length)
                => /\ Cardinality(SeedPaths) = Cardinality(branches)
                   /\ \A k \in SeedPaths : \E B \in branches :
                          Range(paths[k].pts) \subseteq B \cup {jn}

\* C4: no retained contour path runs along a skeleton pixel that seed
\* tracing had already visited.
C4_ContoursOnlyFromUnvisited ==
    \A k \in ContourPaths :
        \A n \in 1..Len(paths[k].pts) : OnPixel(paths[k].pts[n]) \notin visited

\* C5: any two retained paths, of either origin, share at most DedupMax
\* coordinates.
C5_SharedAtMostFive ==
    \A a, b \in 1..Len(paths) :
        a < b => Cardinality(TupleSet(paths[a]) \cap TupleSet(paths[b])) <= DedupMax

\* a seed-traced path and two contours were retained together
C5_Witness ==
    /\ pc = "done"
    /\ SeedPaths # {}
    /\ Cardinality(ContourPaths) >= 2

\* C6: a seed-traced candidate is retained iff it has at least min_length
\* points, a contour that duplicates no retained path is retained iff it
\* has at least ContourMin points, and every retained path has at least
\* min_length (seed-traced) or ContourMin (contour) points.
C6_MinimumLengths ==
    /\ [](/\ \A k \in SeedPaths : Len(paths[k].pts) >= min_length
          /\ \A k \in ContourPaths : Len(paths[k].pts) >= ContourMin)
    /\ [][/\ (pc = "trace" /\ pc' = "seed_loop") =>
                ((paths' # paths) <=> (Len(path) >= min_length))
          /\ (pc = "contour_loop" /\ j' = j + 1) =>
                ((paths' # paths) <=>
                    /\ Len(contours[j]) >= ContourMin
                    /\ is_new(FloatArray(ColumnStackXY(contours[j])), paths))]_vars

\* C7: two disjoint straight strokes of at least min_length pixels, at
\* least min_length background pixels apart, give exactly two paths, both
\* open, with disjoint coordinates, and paths_count = 2.
C7_TwoStrokes ==
    pc = "done" /\ skel \in FarPairs =>
        /\ status = "success"
        /\ paths_count = 2
        /\ Len(paths) = 2
        /\ \A k \in 1..Len(paths) : ~IsClosed(paths[k])
        /\ \A a, b \in 1..Len(paths) :
              a # b => TupleSet(paths[a]) \cap TupleSet(paths[b]) = {}

\* a skeleton that is one closed loop: connected, every pixel with exactly
\* two neighbours
PureCycle(sk) ==
    /\ sk # {}
    /\ \A p \in sk : Cardinality(TrueNeighbors(sk, p)) = 2
    /\ \A p \in sk : Component(sk, p) = sk

\* C8: a skeleton that is a single pure cycle gives exactly one path, and
\* that path is closed.  (The number of points after smoothing is not part
\* of this statement: it is already refuted by the number of paths.)
C8_PureCycleOnePath ==
    pc = "done" /\ PureCycle(skel) =>
        /\ status = "success"
        /\ paths_count = 1
        /\ Len(paths) = 1
        /\ IsClosed(paths[1])

\* the seeds that came from the endpoint list and from the junction list
EndpointSeeds == {n \in 1..Len(start_points) :
                    neighbor_count(skel, shape, start_points[n]) = 11}
JunctionSeeds == {n \in 1..Len(start_points) :
                    neighbor_count(skel, shape, start_points[n]) >= 13}

\* C16: the endpoint list holds exactly the skeleton pixels with one
\* skeleton pixel among their in-grid 8-neighbours, the junction list
\* exactly those with three or more, wherever in the grid the pixel lies;
\* pixels with two or no neighbour and background pixels are in neither.
C16_ClassifiedByInGridNeighbours ==
    pc # "extract_paths" =>
        /\ {start_points[n] : n \in EndpointSeeds}
              = {p \in skel : Cardinality(TrueNeighbors(skel, p)) = 1}
        /\ {start_points[n] : n \in JunctionSeeds}
              = {p \in skel : Cardinality(TrueNeighbors(skel, p)) >= 3}
        /\ EndpointSeeds \cup JunctionSeeds = 1..Len(start_points)

\* C17: the endpoint list and the junction list are each in raster scan
\* order: by increasing y, and by increasing x within a row.
C17_RasterOrder ==
    pc = "seed_loop" /\ i = 1 =>
        \A a \in 1..(Len(start_points) - 1) :
            LET b == a + 1
            IN (a \in EndpointSeeds <=> b \in EndpointSeeds) =>
                  \/ start_points[a][2] < start_points[b][2]
                  \/ /\ start_points[a][2] = start_points[b][2]
                     /\ start_points[a][1] < start_points[b][1]

\* two endpoints were listed, the one further right first because it lies
\* in the higher row, and a junction after them
C17_Witness ==
    /\ \E a, b \in EndpointSeeds :
          /\ a < b
          /\ start_points[a][1] > start_points[b][1]
    /\ JunctionSeeds # {}

\* C20 as stated: the tolerance every raw path is simplified with is the
\* one the caller sent, and 0.8 when the caller sent none.
C20_CallerToleranceApplied ==
    pc = "simplify" /\ simplified_paths # <<>> =>
        LET tolerance == IF request.tolerance # 0 THEN request.tolerance ELSE 8
        IN /\ epsilon = tolerance
           /\ \A n \in 1..Len(simplified_paths) :
                 simplified_paths[n] = simplify_path(paths[n], tolerance)

\* C20 amended: every raw path is simplified with tolerance 0.8, whatever
\* the request carries; the handler has no tolerance parameter.
C20_ToleranceAlwaysDefault ==
    pc = "simplify" /\ simplified_paths # <<>> =>
        /\ epsilon = 8
        /\ \A n \in 1..Len(simplified_paths) :
              simplified_paths[n] = simplify_path(paths[n], 8)

\* the caller sent tolerance 2.0 and a path came out as 0.8 makes it, not
\* as 2.0 would
C20_Witness ==
    /\ request.tolerance = 20
    /\ \E n \in 1..Len(simplified_paths) :
          /\ simplified_paths[n] = simplify_path(paths[n], 8)
          /\ simplified_paths[n] # simplify_path(paths[n], 20)

\* the paths on which the spline fit of smooth_path raises
FailedFits ==
    {n \in 1..Len(simplified_paths) :
        SplineTried(simplified_paths[n]) /\ SplineRaises(request.num_points)}

\* C14: when the spline fit fails on some path, smooth_path recovers on
\* its own: every path, the failing one included, still gets its smoothed
\* form, and the request ends with status success and counts every path.
C14_PathFailureRecovered ==
    pc = "done" /\ FailedFits # {} =>
        /\ status = "success"
        /\ Len(smoothed_paths) = Len(paths)
        /\ paths_count = Len(paths)
        /\ \A n \in 1..Len(paths) :
              n \notin FailedFits => smoothed_paths[n] = simplified_paths[n]

\* the fit failed on one path while another one went through untouched
C14_Witness ==
    /\ pc = "done"
    /\ \E a, b \in 1..Len(paths) :
          /\ a \in FailedFits
          /\ b \notin FailedFits
          /\ smoothed_paths[a] # simplified_paths[a]

Next ==
    \/ FindSeeds
    \/ SeedSkip
    \/ SeedTrace
    \/ TraceStep
    \/ TraceReturn
    \/ FindContours
    \/ ContourNext
    \/ ReturnPaths
    \/ DebugVisualization
    \/ SimplifyNext
    \/ SimplifyDone
    \/ SmoothNext
    \/ SmoothDone
    \/ Respond
    \/ RespondError

Spec == Init /\ [][Next]_vars

(* -------------------- trace_path_from_point alone -------------------- *)
\* start points that are no seeds: a background pixel, a pixel of a stroke
\* and points outside the grid
StartPoints == {<<0, 0>>, <<3, 1>>, <<2, 2>>, <<-1, 1>>, <<GridW, 1>>}

\* extract_paths_from_skeleton is called with a skeleton, or the seed loop
\* is about to call trace_path_from_point with an arbitrary start point
InitTrace ==
    /\ \E inp \in Inputs : shape = inp.shape /\ skel = inp.skel
    /\ request = [content_type |-> "image/png", tolerance |-> 0,
                  num_points |-> 200, debug |-> FALSE]
    /\ image = [kind |-> "skeleton", gray |-> 0]
    /\ bw = {}
    /\ bw_cleaned = {}
    /\ \/ pc = "extract_paths" /\ start_points = <<>> /\ i = 0
       \/ /\ pc = "seed_loop"
          /\ \E p \in StartPoints : start_points = <<p>>
          /\ i = 1
    /\ visited = {}
    /\ queue = <<>>
    /\ path = <<>>
    /\ paths = <<>>
    /\ contours = <<>>
    /\ j = 0
    /\ path_index = 0
    /\ epsilon = 0
    /\ closed = FALSE
    /\ simplified_paths = <<>>
    /\ smoothed_paths = <<>>
    /\ paths_svg = <<>>
    /\ temp_files = <<>>
    /\ PyplotIdle
    /\ ManagerIdle
    /\ paths_count = -1
    /\ status = "pending"

NextTrace ==
    \/ FindSeeds
    \/ SeedSkip
    \/ SeedTrace
    \/ TraceStep
    \/ TraceReturn

\* the while loop of lines 117-134 and the return of lines 136-140 run on
\* one thread without waiting for anything: an iteration that can be taken
\* is taken
SpecTrace ==
    InitTrace /\ [][NextTrace]_vars /\ WF_vars(TraceStep) /\ WF_vars(TraceReturn)

(* ------------------- simplify_path and smooth_path on a path --------- *)
\* the pixels the paths are made of: some are exactly ClosedDist apart,
\* some nearer, some further, three lie on one line
PathPixels == {<<0, 0>>, <<2, 0>>, <<5, 0>>, <<3, 4>>, <<1, 1>>, <<6, 1>>}

PixelSeqs == UNION {[1..n -> PathPixels] : n \in 1..MaxPathLen}

\* a path of pixels as the tracer returns it, and as a float64 array whose
\* x coordinates lie `off' units of 1/Unit pixel beside the pixel centres
\* (1 is where find_contours puts its points)
PathArrays ==
    {IntArray(pts) : pts \in PixelSeqs}
      \cup {FloatArray([n \in 1..Len(pts) |->
                          <<Unit * pts[n][1] + off, Unit * pts[n][2]>>]) :
               pts \in PixelSeqs, off \in {0, 1}}

InitPaths ==
    /\ request \in Requests
    /\ image = [kind |-> "paths", gray |-> 0]
    /\ bw = {}
    /\ bw_cleaned = {}
    /\ shape = [w |-> 0, h |-> 0]
    /\ skel = {}
    /\ pc = "simplify"
    /\ start_points = <<>>
    /\ i = 0
    /\ visited = {}
    /\ queue = <<>>
    /\ path = <<>>
    /\ \E arr \in PathArrays : paths = <<arr>>
    /\ contours = <<>>
    /\ j = 0
    /\ path_index = 1
    /\ epsilon = 0
    /\ closed = FALSE
    /\ simplified_paths = <<>>
    /\ smoothed_paths = <<>>
    /\ paths_svg = <<>>
    /\ temp_files = <<>>
    /\ PyplotIdle
    /\ ManagerIdle
    /\ paths_count = -1
    /\ status = "pending"

NextPaths ==
    \/ SimplifyNext
    \/ SimplifyDone
    \/ SmoothNext
    \/ SmoothDone
    \/ Respond

SpecPaths == InitPaths /\ [][NextPaths]_vars

\* the paths simplify_path has been applied to so far
Simplified == 1..Len(simplified_paths)

\* first and last point further apart than the closed-path threshold, or
\* at it
Open(arr) ==
    Dist2(Value(arr, 1), Value(arr, Len(arr.pts)))
        >= (ClosedDist * Unit) * (ClosedDist * Unit)

\* C18 as stated: simplify_path returns at most as many points as it was
\* given, and the first and the last point of an open path come out
\* exactly as they went in.
C18_EndsPreservedExactly ==
    \A n \in Simplified :
        LET in == paths[n]
            out == simplified_paths[n]
        IN /\ Len(out.pts) <= Len(in.pts)
           /\ Open(in) => /\ Stored(out, 1) = Stored(in, 1)
                          /\ Stored(out, Len(out.pts)) = Stored(in, Len(in.pts))

\* C18 amended: simplify_path returns at most as many points as it was
\* given; a path of fewer than 3 points comes back as it is; the first and
\* the last point of an open path of 3 points or more come out as the
\* float32 values of the first and the last input point, which are the
\* input points themselves when their coordinates are whole pixels.
C18_EndsPreservedAsFloat32 ==
    \A n \in Simplified :
        LET in == paths[n]
            in32 == [dtype |-> "float32",
                     pts |-> [m \in 1..Len(in.pts) |-> Value(in, m)]]
            out == simplified_paths[n]
        IN /\ Len(out.pts) <= Len(in.pts)
           /\ Len(in.pts) < 3 => out = in
           /\ (Len(in.pts) >= 3 /\ Open(in)) =>
                 /\ out.dtype = "float32"
                 /\ Stored(out, 1) = Stored(in32, 1)
                 /\ Stored(out, Len(out.pts)) = Stored(in32, Len(in.pts))
                 /\ in.dtype = "int64" =>
                       /\ Stored(out, 1) = Stored(in, 1)
                       /\ Stored(out, Len(out.pts)) = Stored(in, Len(in.pts))

\* an open float64 path with coordinates off the pixel centres lost a
\* point, and so did an open path of pixels
C18_Witness ==
    \E n \in Simplified :
        /\ Len(paths[n].pts) >= 3
        /\ Open(paths[n])
        /\ Len(simplified_paths[n].pts) < Len(paths[n].pts)
        /\ paths[n].dtype = "float64"
        /\ ~Float32Exact(paths[n].pts[1][1])

\* the path the last call of simplify_path was given, when it had the 3
\* points the closed test is made for
LastSimplified == paths[path_index - 1]
ClosedTested ==
    pc = "simplify" /\ path_index > 1 /\ Len(LastSimplified.pts) >= 3

\* squared distance between the ends of a path, and of the threshold
EndsDist2(arr) == Dist2(Value(arr, 1), Value(arr, Len(arr.pts)))
Threshold2 == (ClosedDist * Unit) * (ClosedDist * Unit)

\* C19 as stated: simplify_path treats the path as closed iff its first and
\* last point are at most ClosedDist apart, a distance of exactly ClosedDist
\* included.
C19_ClosedWithinThreshold ==
    ClosedTested => (closed <=> EndsDist2(LastSimplified) <= Threshold2)

\* C19 amended: simplify_path treats a path of 3 points or more as closed
\* iff its first and last point are less than ClosedDist apart; at exactly
\* ClosedDist the path is open.
C19_ClosedBelowThreshold ==
    ClosedTested => (closed <=> EndsDist2(LastSimplified) < Threshold2)

\* a path whose ends are exactly ClosedDist apart was simplified as open
C19_Witness ==
    /\ ClosedTested
    /\ EndsDist2(LastSimplified) = Threshold2
    /\ ~closed
    /\ simplified_paths[path_index - 1].pts[1] = Value(LastSimplified, 1)

(* ------------------- smooth_path on its own inputs ------------------- *)
MaxSmoothLen == 11

\* a path that turns at every point, and the same path with one point in
\* three stored twice
Zigzag(len) == IntArray([n \in 1..len |-> <<n, n % 2>>])
Stutter(len) ==
    IntArray([n \in 1..len |-> <<n - (n \div 3), (n - (n \div 3)) % 2>>])

\* simplify_path hands on a path of fewer than 3 points as it is and any
\* other path as a float32 array
SmoothInputs ==
    {arr \in PathArrays : Len(arr.pts) < 3}
        \cup {AsFloat32(arr) : arr \in {a \in PathArrays : Len(a.pts) >= 3}}
        \cup {AsFloat32(Zigzag(len)) : len \in 4..MaxSmoothLen}
        \cup {AsFloat32(Stutter(len)) : len \in 4..(MaxSmoothLen + 4)}

\* the state of image_to_svg before line 334 with one path to smooth
InitSmooth ==
    /\ request \in Requests
    /\ image = [kind |-> "paths", gray |-> 0]
    /\ bw = {}
    /\ bw_cleaned = {}
    /\ shape = [w |-> 0, h |-> 0]
    /\ skel = {}
    /\ pc = "smooth"
    /\ start_points = <<>>
    /\ i = 0
    /\ visited = {}
    /\ queue = <<>>
    /\ path = <<>>
    /\ \E arr \in SmoothInputs : paths = <<arr>> /\ simplified_paths = <<arr>>
    /\ contours = <<>>
    /\ j = 0
    /\ path_index = 1
    /\ epsilon = 0
    /\ closed = FALSE
    /\ smoothed_paths = <<>>
    /\ paths_svg = <<>>
    /\ temp_files = <<>>
    /\ PyplotIdle
    /\ ManagerIdle
    /\ paths_count = -1
    /\ status = "pending"

NextSmooth ==
    \/ SmoothNext
    \/ SmoothDone
    \/ Respond

SpecSmooth == InitSmooth /\ [][NextSmooth]_vars

(* -------------- two runs of image_to_svg on two threads -------------- *)
\* no request is in the single-run pipeline
PipelineIdle ==
    /\ request = [content_type |-> "image/png", tolerance |-> 0,
                  num_points |-> 200, debug |-> FALSE]
    /\ image = [kind |-> "none", gray |-> 0]
    /\ bw = {}
    /\ bw_cleaned = {}
    /\ shape = [w |-> 0, h |-> 0]
    /\ skel = {}
    /\ pc = "done"
    /\ start_points = <<>>
    /\ i = 0
    /\ visited = {}
    /\ queue = <<>>
    /\ path = <<>>
    /\ paths = <<>>
    /\ contours = <<>>
    /\ j = 0
    /\ path_index = 1
    /\ epsilon = 0
    /\ closed = FALSE
    /\ simplified_paths = <<>>
    /\ smoothed_paths = <<>>
    /\ paths_svg = <<>>
    /\ paths_count = -1
    /\ status = "pending"

\* both threads are about to call image_to_svg, each with or without debug
InitThreads ==
    /\ PipelineIdle
    /\ ManagerIdle
    /\ temp_files = <<>>
    /\ t_pc = [t \in Threads |-> "start"]
    /\ t_debug \in [Threads -> BOOLEAN]
    /\ figs = <<>>

\* lines 318-330: preprocess, skeleton and path extraction work on the
\* locals of the run; then the test of generate_debug
RunToDebug(t) ==
    /\ t_pc[t] = "start"
    /\ t_pc' = [t_pc EXCEPT ![t] = IF t_debug[t] THEN "figure" ELSE "simplify"]
    /\ UNCHANGED <<pipeline, manager, temp_files, t_debug, figs>>

\* line 290: plt.figure() makes a new figure and makes it the current one
PltFigure(t) ==
    /\ t_pc[t] = "figure"
    /\ figs' = Append(figs, {})
    /\ t_pc' = [t_pc EXCEPT ![t] = "subplot131"]
    /\ UNCHANGED <<pipeline, manager, temp_files, t_debug>>

\* plt.subplot, plt.imshow, plt.plot: they draw on plt.gcf(), the figure
\* that is current in the process, or on a new one if there is none
DrawOnCurrent(t, panel) ==
    IF figs = <<>> THEN << {<<t, panel>>} >>
    ELSE [figs EXCEPT ![Len(figs)] = @ \cup {<<t, panel>>}]

\* lines 292-296
PlotBinary(t) ==
    /\ t_pc[t] = "subplot131"
    /\ figs' = DrawOnCurrent(t, 131)
    /\ t_pc' = [t_pc EXCEPT ![t] = "subplot132"]
    /\ UNCHANGED <<pipeline, manager, temp_files, t_debug>>

\* lines 298-302
PlotSkeleton(t) ==
    /\ t_pc[t] = "subplot132"
    /\ figs' = DrawOnCurrent(t, 132)
    /\ t_pc' = [t_pc EXCEPT ![t] = "subplot133"]
    /\ UNCHANGED <<pipeline, manager, temp_files, t_debug>>

\* lines 304-311
PlotPaths(t) ==
    /\ t_pc[t] = "subplot133"
    /\ figs' = DrawOnCurrent(t, 133)
    /\ t_pc' = [t_pc EXCEPT ![t] = "savefig"]
    /\ UNCHANGED <<pipeline, manager, temp_files, t_debug>>

\* line 313: plt.savefig writes the current figure to the file of the run
PltSavefig(t) ==
    /\ t_pc[t] = "savefig"
    /\ figs' = IF figs = <<>> THEN << {} >> ELSE figs
    /\ temp_files' = [name \in DOMAIN temp_files \cup {DebugFile(t)} |->
                         IF name = DebugFile(t) THEN figs'[Len(figs')]
                         ELSE temp_files[name]]
    /\ t_pc' = [t_pc EXCEPT ![t] = "close"]
    /\ UNCHANGED <<pipeline, manager, t_debug>>

\* line 314: plt.close() closes the current figure, if there is one
PltClose(t) ==
    /\ t_pc[t] = "close"
    /\ figs' = IF figs = <<>> THEN figs ELSE SubSeq(figs, 1, Len(figs) - 1)
    /\ t_pc' = [t_pc EXCEPT ![t] = "simplify"]
    /\ UNCHANGED <<pipeline, manager, temp_files, t_debug>>

\* lines 332-343: the rest of the run works on its locals and returns
RunToReturn(t) ==
    /\ t_pc[t] = "simplify"
    /\ t_pc' = [t_pc EXCEPT ![t] = "done"]
    /\ UNCHANGED <<pipeline, manager, temp_files, t_debug, figs>>

NextThreads ==
    \E t \in Threads :
        \/ RunToDebug(t)
        \/ PltFigure(t)
        \/ PlotBinary(t)
        \/ PlotSkeleton(t)
        \/ PlotPaths(t)
        \/ PltSavefig(t)
        \/ PltClose(t)
        \/ RunToReturn(t)

SpecThreads == InitThreads /\ [][NextThreads]_vars

(* ------------- ConnectionManager and websocket_endpoint -------------- *)
\* dict[k] = v and del dict[k]
Put(dict, key, value) ==
    [x \in DOMAIN dict \cup {key} |-> IF x = key THEN value ELSE dict[x]]
Drop(dict, key) == [x \in DOMAIN dict \ {key} |-> dict[x]]

\* no websocket has been opened yet
InitSockets ==
    /\ PipelineIdle
    /\ PyplotIdle
    /\ temp_files = <<>>
    /\ active_connections = <<>>
    /\ user_sessions = <<>>
    /\ ws_pc = [ws \in WebSockets |-> "idle"]
    /\ ws_client = [ws \in WebSockets |-> "none"]
    /\ ws_open = [ws \in WebSockets |-> FALSE]
    /\ latest = <<>>
    /\ lost = {}

\* lines 177-179 and 44: a client opens /ws/{client_id}; the handler waits
\* in websocket.accept()
Connect(ws, client_id) ==
    /\ ws_pc[ws] = "idle"
    /\ ws_pc' = [ws_pc EXCEPT ![ws] = "accept"]
    /\ ws_client' = [ws_client EXCEPT ![ws] = client_id]
    /\ ws_open' = [ws_open EXCEPT ![ws] = TRUE]
    /\ UNCHANGED <<pipeline, pyplot, temp_files, active_connections,
                   user_sessions, latest, lost>>

\* lines 45-50: the rest of connect; latest remembers which websocket
\* registered last under the client id
Register(ws) ==
    /\ ws_pc[ws] = "accept"
    /\ active_connections' = Put(active_connections, ws_client[ws], ws)
    /\ user_sessions' = Put(user_sessions, ws_client[ws], [query_count |-> 0])
    /\ latest' = Put(latest, ws_client[ws], ws)
    /\ ws_pc' = [ws_pc EXCEPT ![ws] = "welcome"]
    /\ UNCHANGED <<pipeline, pyplot, temp_files, ws_client, ws_open, lost>>

\* disconnect, lines 52-57
disconnect(dict, client_id) ==
    IF client_id \in DOMAIN dict THEN Drop(dict, client_id) ELSE dict

\* send_personal_message, lines 59-66: the message goes to the websocket
\* registered under client_id; sending to a closed websocket raises and
\* the handler of the exception disconnects the client id
SendFails(client_id) ==
    /\ client_id \in DOMAIN active_connections
    /\ ~ws_open[active_connections[client_id]]

send_personal_message(client_id) ==
    /\ active_connections' = IF SendFails(client_id)
                             THEN disconnect(active_connections, client_id)
                             ELSE active_connections
    /\ user_sessions' = IF SendFails(client_id)
                        THEN disconnect(user_sessions, client_id)
                        ELSE user_sessions

\* whether a message for client_id reaches the websocket ws
Reaches(client_id, ws) ==
    /\ client_id \in DOMAIN active_connections
    /\ active_connections[client_id] = ws
    /\ ws_open[ws]

\* lines 181-188: the welcome message
Welcome(ws) ==
    /\ ws_pc[ws] = "welcome"
    /\ send_personal_message(ws_client[ws])
    /\ ws_pc' = [ws_pc EXCEPT ![ws] = "receive"]
    /\ UNCHANGED <<pipeline, pyplot, temp_files, ws_client, ws_open, latest, lost>>

\* lines 192-199: a message arrives and the session counters are updated
Receive(ws) ==
    /\ ws_pc[ws] = "receive"
    /\ ws_open[ws]
    /\ ws_client[ws] \in DOMAIN user_sessions =>
          user_sessions[ws_client[ws]].query_count < MaxQueries
    /\ user_sessions' =
          IF ws_client[ws] \in DOMAIN user_sessions
          THEN [user_sessions EXCEPT ![ws_client[ws]].query_count = @ + 1]
          ELSE user_sessions
    /\ ws_pc' = [ws_pc EXCEPT ![ws] = "handle"]
    /\ UNCHANGED <<pipeline, pyplot, temp_files, active_connections, ws_client,
                   ws_open, latest, lost>>

\* lines 201-214: every message type is answered with
\* send_personal_message(..., client_id); lost collects the open
\* websockets whose answer did not reach them
Reply(ws) ==
    /\ ws_pc[ws] = "handle"
    /\ send_personal_message(ws_client[ws])
    /\ lost' = IF ws_open[ws] /\ ~Reaches(ws_client[ws], ws)
               THEN lost \cup {ws}
               ELSE lost
    /\ ws_pc' = [ws_pc EXCEPT ![ws] = "receive"]
    /\ UNCHANGED <<pipeline, pyplot, temp_files, ws_client, ws_open, latest>>

\* the client closes its websocket
ClientClose(ws) ==
    /\ ws_pc[ws] \in {"accept", "welcome", "receive", "handle"}
    /\ ws_open[ws]
    /\ ws_open' = [ws_open EXCEPT ![ws] = FALSE]
    /\ UNCHANGED <<pipeline, pyplot, temp_files, active_connections,
                   user_sessions, ws_pc, ws_client, latest, lost>>

\* lines 217-218: receive_text raises WebSocketDisconnect and the handler
\* calls manager.disconnect(client_id)
Disconnected(ws) ==
    /\ ws_pc[ws] = "receive"
    /\ ~ws_open[ws]
    /\ active_connections' = disconnect(active_connections, ws_client[ws])
    /\ user_sessions' = disconnect(user_sessions, ws_client[ws])
    /\ ws_pc' = [ws_pc EXCEPT ![ws] = "closed"]
    /\ UNCHANGED <<pipeline, pyplot, temp_files, ws_client, ws_open, latest, lost>>

NextSockets ==
    \E ws \in WebSockets :
        \/ \E client_id \in ClientIds : Connect(ws, client_id)
        \/ Register(ws)
        \/ Welcome(ws)
        \/ Receive(ws)
        \/ Reply(ws)
        \/ ClientClose(ws)
        \/ Disconnected(ws)

SpecSockets == InitSockets /\ [][NextSockets]_vars

(* ------------------------ the pipeline on an image ------------------- *)
GrayLevels == {0, FgValue}

\* uniform images, among them one row of MinArea pixels
BlankShapes == {[w |-> w, h |-> h] :
                  w \in (1..MaxBlankW) \cup {MinArea}, h \in 1..MaxBlankH}

\* thresholded images: a block of on pixels in the corner, or its complement
MaskShape == [w |-> MaskW, h |-> MaskH]
Block(a, b) == (0..(a - 1)) \X (0..(b - 1))
\* a square speck in the corner, two off pixels away from the rest
Specks == {Block(a, a) \cup (AllPixels(MaskShape) \ Block(a + 2, a + 2)) :
             a \in 1..(MaskH - 2)}
\* two parts separated by a band of two off columns
Bands == {{p \in AllPixels(MaskShape) : p[1] \notin {a, a + 1}} :
            a \in 1..(MaskW - 3)}
Masks == {Block(a, b) : a \in 0..MaskW, b \in 1..MaskH}
            \cup {AllPixels(MaskShape) \ Block(a, b) : a \in 1..MaskW, b \in 1..MaskH}
            \cup Specks \cup Bands

\* uploads whose content type is not an image type
OtherUploads == [content_type : {"text/plain"}, tolerance : {0},
                 num_points : {200}, debug : {FALSE}]

\* grids without a pixel: no row, no column, or neither
EmptyShapes == {[w |-> w, h |-> h] : w, h \in 0..MaxBlankH} \
                 {[w |-> w, h |-> h] : w, h \in 1..MaxBlankH}

InitImage ==
    /\ bw_cleaned = {}
    /\ \/ /\ pc = "request"
          /\ request \in Requests
          /\ shape \in BlankShapes
          /\ \E g \in GrayLevels : image = [kind |-> "uniform", gray |-> g]
          /\ bw = {}
       \/ /\ pc = "request"
          /\ request \in Requests \cup OtherUploads
          /\ shape = [w |-> 0, h |-> 0]
          /\ image = [kind |-> "none", gray |-> 0]
          /\ bw = {}
       \/ /\ pc = "preprocess"
          /\ request \in Requests
          /\ shape \in EmptyShapes
          /\ image = [kind |-> "empty", gray |-> 0]
          /\ bw = {}
       \/ /\ pc = "polarity"
          /\ request \in Requests
          /\ shape = MaskShape
          /\ image = [kind |-> "thresholded", gray |-> 0]
          /\ bw \in Masks
    /\ skel = {}
    /\ start_points = <<>>
    /\ i = 0
    /\ visited = {}
    /\ queue = <<>>
    /\ path = <<>>
    /\ paths = <<>>
    /\ contours = <<>>
    /\ j = 0
    /\ path_index = 0
    /\ epsilon = 0
    /\ closed = FALSE
    /\ simplified_paths = <<>>
    /\ smoothed_paths = <<>>
    /\ paths_svg = <<>>
    /\ temp_files = <<>>
    /\ PyplotIdle
    /\ ManagerIdle
    /\ paths_count = -1
    /\ status = "pending"

\* convert_image_to_svg lines 383-384: the content type is checked before
\* the try block, so this 400 reaches the caller
CheckContentType ==
    /\ pc = "request"
    /\ IF request.content_type = "image/png"
       THEN pc' = "decode" /\ UNCHANGED status
       ELSE pc' = "done" /\ status' = "bad_request"
    /\ UNCHANGED <<pyplot, manager, paths_svg, temp_files, request, image, bw, bw_cleaned, shape, skel, start_points, i,
                   visited, queue, path, paths, contours, j, post, paths_count>>

\* lines 386-400: cv2.imdecode returns None for bytes that are no image,
\* and HTTPException(400) is raised inside the try block
Decode ==
    /\ pc = "decode"
    /\ pc' = IF image.kind = "none" THEN "raised" ELSE "preprocess"
    /\ UNCHANGED <<pyplot, manager, paths_svg, temp_files, request, image, bw, bw_cleaned, shape, skel, start_points, i,
                   visited, queue, path, paths, contours, j, post, paths_count,
                   status>>

\* lines 37-51 on a grid without pixels: nothing in preprocess_image looks at
\* the shape; the OpenCV calls either reject the empty array or hand an
\* empty mask on
PreprocessEmpty ==
    /\ pc = "preprocess"
    /\ image.kind = "empty"
    /\ \/ pc' = "raised"
       \/ pc' = "polarity"
    /\ UNCHANGED <<pyplot, manager, paths_svg, temp_files, request, image, bw, bw_cleaned, shape, skel, start_points, i,
                   visited, queue, path, paths, contours, j, post, paths_count,
                   status>>

\* lines 37-51 on a uniform image
AdaptiveThreshold ==
    /\ pc = "preprocess"
    /\ image.kind = "uniform"
    /\ bw' = ThresholdUniform(image.gray, shape)
    /\ pc' = "polarity"
    /\ UNCHANGED <<pyplot, manager, paths_svg, temp_files, request, bw_cleaned, post, image, shape, skel, start_points, i, visited, queue, path,
                   paths, contours, j, paths_count, status>>

\* lines 53-56
Polarity ==
    /\ pc = "polarity"
    /\ bw' = NormalizePolarity(bw, shape)
    /\ pc' = "morphology"
    /\ UNCHANGED <<pyplot, manager, paths_svg, temp_files, request, bw_cleaned, post, image, shape, skel, start_points, i, visited, queue, path,
                   paths, contours, j, paths_count, status>>

\* lines 58-61
Morphology ==
    /\ pc = "morphology"
    /\ bw' = MorphOpen(MorphClose(bw, shape), shape)
    /\ pc' = "components"
    /\ UNCHANGED <<pyplot, manager, paths_svg, temp_files, request, bw_cleaned, post, image, shape, skel, start_points, i, visited, queue, path,
                   paths, contours, j, paths_count, status>>

\* lines 63-71: the kept components are copied into a new mask, bw_cleaned
RemoveSmallComponents ==
    /\ pc = "components"
    /\ bw_cleaned' = RemoveSmall(bw)
    /\ pc' = "skeleton"
    /\ UNCHANGED <<pyplot, manager, paths_svg, temp_files, request, bw, post, image, shape, skel, start_points, i, visited, queue, path,
                   paths, contours, j, paths_count, status>>

\* GetSkeleton with binary_img < 128: the background is thinned
GetSkeleton_Inverted ==
    /\ pc = "skeleton"
    /\ skel' = thin({p \in AllPixels(shape) : p \notin bw_cleaned})
    /\ pc' = "extract_paths"
    /\ UNCHANGED <<pyplot, manager, paths_svg, temp_files, request, bw_cleaned, post, image, bw, shape, start_points, i, visited, queue, path,
                   paths, contours, j, paths_count, status>>

\* get_skeleton, lines 73-81: the pixels above 128 are thinned
GetSkeleton ==
    /\ pc = "skeleton"
    /\ skel' = thin({p \in bw_cleaned : FgValue > 128})
    /\ pc' = "extract_paths"
    /\ UNCHANGED <<pyplot, manager, paths_svg, temp_files, request, bw_cleaned, post, image, bw, shape, start_points, i, visited, queue, path,
                   paths, contours, j, paths_count, status>>

NextImage ==
    \/ CheckContentType
    \/ Decode
    \/ PreprocessEmpty
    \/ AdaptiveThreshold
    \/ Polarity
    \/ Morphology
    \/ RemoveSmallComponents
    \/ GetSkeleton
    \/ Next

SpecImage == InitImage /\ [][NextImage]_vars

(* ================= properties of the pipeline on an image ============ *)
\* C9: a uniform (blank) image of any size ends with status success,
\* paths_count = 0 and no path to draw.
C9_BlankImageNoPaths ==
    pc = "done" /\ image.kind = "uniform" =>
        /\ status = "success"
        /\ paths_count = 0
        /\ paths = <<>>

\* C10: right after polarity normalization the on pixels, which are the
\* ones labelled, filtered and thinned afterwards, are at most half of the
\* image.
C10_ForegroundMinority ==
    pc = "morphology" => 2 * Cardinality(bw) <= Cardinality(AllPixels(shape))

\* the stages after the component filter
Filtered == pc \notin {"request", "preprocess", "polarity", "morphology", "components"}

\* C11: the mask returned by preprocess_image consists of exactly the
\* 8-connected components of the mask before the filter that have at least
\* MinArea pixels: none under MinArea is left (a speck of 9 pixels is
\* removed) and each one of MinArea pixels or more is kept unchanged.
C11_SmallComponentsRemoved ==
    pc = "skeleton" =>
        /\ Components(bw_cleaned) = {c \in Components(bw) : Cardinality(c) >= MinArea}
        /\ \A c \in Components(bw_cleaned) : Cardinality(c) >= MinArea

\* a speck of 9 pixels was removed next to a component that was kept
C11_Witness ==
    /\ Filtered
    /\ image.kind = "thresholded"
    /\ \E c \in Components(bw) : Cardinality(c) = 9 /\ c \cap bw_cleaned = {}
    /\ bw_cleaned # {}

\* C12: a grid without pixels is rejected with a validation error (a 400,
\* not the 500 of a processing failure) before any stage has run.
C12_EmptyGridInvalidImage ==
    pc = "done" /\ image.kind = "empty" =>
        /\ status = "bad_request"
        /\ skel = {}
        /\ start_points = <<>>

\* C13: when the uploaded bytes cannot be decoded, image_to_svg is never
\* entered and the caller receives the 400 "Could not decode image".
C13_DecodeErrorIsBadRequest ==
    pc = "done" /\ image.kind = "none" /\ request.content_type = "image/png" =>
        /\ status = "bad_request"
        /\ paths_count = -1
        /\ bw = {} /\ skel = {} /\ paths = <<>>

\* the stages after get_skeleton and find_endpoints_junctions
Seeded == Filtered /\ pc \notin {"skeleton", "extract_paths"}

\* C15: on a skeleton without a pixel find_endpoints_junctions returns two
\* empty lists, extract_paths_from_skeleton returns no path and does not
\* raise, and the request ends with status success and paths_count = 0.
C15_EmptySkeletonNoError ==
    Seeded /\ skel = {} /\ image.kind \in {"uniform", "thresholded"} =>
        /\ start_points = <<>>
        /\ paths = <<>>
        /\ pc # "raised"
        /\ pc = "done" => status = "success" /\ paths_count = 0

(* ------------------------------ smooth_path -------------------------- *)
\* the number of points of arr that differ from the point before them
UniqueCount(arr) ==
    Cardinality({n \in 1..Len(arr.pts) :
                    n = 1 \/ Stored(arr, n) # Stored(arr, n - 1)})

\* C21: a path with fewer than 4 points left after consecutive duplicates
\* are removed comes back from smooth_path unchanged, duplicates included;
\* a longer one whose spline fit succeeds comes back with exactly
\* num_points points
C21_ShortUnchangedElseNumPoints ==
    \A n \in 1..Len(smoothed_paths) :
        LET arr == simplified_paths[n]
        IN /\ UniqueCount(arr) < 4 => smoothed_paths[n] = arr
           /\ UniqueCount(arr) >= 4 /\ request.num_points >= 0 =>
                  Len(smoothed_paths[n].pts) = request.num_points

\* a path of 4 points or more, fewer than 4 of them left after the
\* duplicates are removed, has come back with its duplicates
C21_Witness ==
    \E n \in 1..Len(smoothed_paths) :
        /\ Len(simplified_paths[n].pts) >= 4
        /\ UniqueCount(simplified_paths[n]) < 4
        /\ UniqueCount(simplified_paths[n]) < Len(simplified_paths[n].pts)
        /\ smoothed_paths[n] = simplified_paths[n]

\* the index in arr of its m-th point that differs from the point before it
KthUnique(arr, m) ==
    LET kept == {n \in 1..Len(arr.pts) :
                    n = 1 \/ Stored(arr, n) # Stored(arr, n - 1)}
    IN CHOOSE n \in kept : Cardinality({q \in kept : q <= n}) = m

\* the sum of coordinate c over the w unique points of arr from the m-th on
RECURSIVE WindowSum(_, _, _, _)
WindowSum(arr, m, w, c) ==
    IF w = 0 THEN 0
    ELSE Value(arr, KthUnique(arr, m))[c] + WindowSum(arr, m + 1, w - 1, c)

\* C22: when the spline fit of a path with n >= 4 unique points fails,
\* smooth_path does not raise; it returns the moving average of the unique
\* points over a window of w = min(5, n div 2) >= 2 points, x and y
\* averaged separately, n - w + 1 points in all, and never the path itself
C22_FallbackMovingAverage ==
    /\ pc # "raised"
    /\ \A n \in 1..Len(smoothed_paths) :
          LET arr == simplified_paths[n]
              u == UniqueCount(arr)
              w == IF u \div 2 < 5 THEN u \div 2 ELSE 5
              out == smoothed_paths[n]
          IN u >= 4 /\ request.num_points < 0 =>
                /\ w >= 2
                /\ out # arr
                /\ out.dtype = "float64"
                /\ out.den = w
                /\ Len(out.pts) = u - w + 1
                /\ \A m \in 1..Len(out.pts) :
                      out.pts[m] = <<WindowSum(arr, m, w, 1), WindowSum(arr, m, w, 2)>>

\* a failed fit of a path with duplicates and 10 unique points or more has
\* been replaced by the average over the full window of 5
C22_Witness ==
    \E n \in 1..Len(smoothed_paths) :
        /\ UniqueCount(simplified_paths[n]) >= 10
        /\ UniqueCount(simplified_paths[n]) < Len(simplified_paths[n].pts)
        /\ request.num_points < 0
        /\ smoothed_paths[n].den = 5

(* -------------------------- paths_to_svg_string ---------------------- *)
\* primitive prim draws the path arr: a move-to at the first point, then a
\* line-to at every later point, in order
Draws(prim, arr) ==
    /\ prim.stroke = "black"
    /\ Len(prim.d) = Len(arr.pts)
    /\ \A m \in 1..Len(prim.d) :
          /\ prim.d[m].cmd = (IF m = 1 THEN "M" ELSE "L")
          /\ prim.d[m].at = SvgPoint(arr, m)

\* C23 as stated: the paths document holds one stroked primitive per path
\* of the final path set, a move-to at its first point and a line-to per
\* later point, so there are as many primitives as paths
C23_OnePrimitivePerPath ==
    pc = "done" /\ status = "success" =>
        /\ Len(paths_svg) = Len(smoothed_paths)
        /\ \A n \in 1..Len(paths_svg) : Draws(paths_svg[n], smoothed_paths[n])

Drawable(arr) == Len(arr.pts) >= 2

\* C23: the paths document holds one stroked primitive per path of the
\* final path set that has 2 points or more, in the order of the paths, a
\* move-to at its first point and a line-to per later point; a path of
\* fewer than 2 points has no primitive
C23_OnePrimitivePerDrawablePath ==
    pc = "done" /\ status = "success" =>
        LET drawn == SelectSeq(smoothed_paths, Drawable)
        IN /\ Len(paths_svg) = Len(drawn)
           /\ \A n \in 1..Len(paths_svg) : Draws(paths_svg[n], drawn[n])

\* a response whose path set has a path of one point and a longer one
C23_Witness ==
    /\ pc = "done"
    /\ status = "success"
    /\ \E n \in 1..Len(smoothed_paths) : ~Drawable(smoothed_paths[n])
    /\ \E n \in 1..Len(smoothed_paths) : Len(smoothed_paths[n].pts) > 2
    /\ paths_svg # <<>>

(* ------------------------- temporary resources ----------------------- *)
\* C24: when image_to_svg has returned or raised, no debug file that the
\* invocation created is left
C24_DebugFileReleased ==
    pc \in {"done", "raised"} => DOMAIN temp_files = {}

(* ------------------------- concurrent invocations -------------------- *)
\* C25: two runs of image_to_svg on two threads do not touch each other's
\* state or state of the process: what a run leaves behind is what it
\* leaves when it runs alone, a debug file showing its own three panels if
\* debug is on, and no figure open once both have returned
C25_RunsIndependent ==
    /\ \A t \in Threads :
          t_pc[t] = "done" /\ t_debug[t] =>
              /\ DebugFile(t) \in DOMAIN temp_files
              /\ temp_files[DebugFile(t)] = SoloFigure(t)
    /\ (\A t \in Threads : t_pc[t] = "done") => figs = <<>>

(* ------------------------------ get_skeleton ------------------------- *)
\* C26: every foreground pixel of the skeleton is a foreground pixel of
\* the mask it was made from, and the skeleton of an all-background mask
\* is all background
C26_SkeletonWithinMask ==
    pc = "extract_paths" =>
        /\ \A p \in skel : p \in bw_cleaned
        /\ bw_cleaned = {} => skel = {}

\* thinning has removed pixels of a mask and left some
C26_Witness ==
    /\ pc = "extract_paths"
    /\ skel # {}
    /\ Cardinality(skel) < Cardinality(bw_cleaned)

(* --------------------------- polarity of the mask -------------------- *)
\* C27: normalising the polarity of a normalised mask changes nothing,
\* also when exactly half of the pixels are on
C27_NormalizeIdempotent ==
    pc = "morphology" =>
        /\ 2 * Cardinality(bw) >= shape.w * shape.h
        /\ NormalizePolarity(bw, shape) = bw

\* a mask with exactly half of its pixels on has been normalised
C27_Witness ==
    /\ pc = "morphology"
    /\ bw # {}
    /\ 2 * Cardinality(bw) = shape.w * shape.h

(* --------------------------- the seed loop --------------------------- *)
\* the skeleton pixels with exactly one skeleton pixel, or with three or
\* more, among their 8-neighbours
TrueEndpoints == {p \in skel : Cardinality(TrueNeighbors(skel, p)) = 1}
TrueJunctions == {p \in skel : Cardinality(TrueNeighbors(skel, p)) >= 3}

\* the seed-traced paths with a pixel in the set c
SeedPathsIn(c) == {k \in SeedPaths : Range(paths[k].pts) \cap c # {}}

\* C28: between two calls of trace_path_from_point the visited set is a
\* union of whole 8-connected components of the skeleton; when the seed
\* loop is over, every component with an endpoint or a junction is visited
\* whole and has given one seed-traced path with all its pixels if it has
\* min_length pixels or more, and no path if it has fewer
C28_ComponentsTracedWhole ==
    pc = "seed_loop" =>
        /\ \A p \in visited : Component(skel, p) \subseteq visited
        /\ i > Len(start_points) =>
              \A p \in TrueEndpoints \cup TrueJunctions :
                  LET c == Component(skel, p)
                  IN /\ c \subseteq visited
                     /\ IF Cardinality(c) >= min_length
                        THEN \E k \in SeedPaths :
                                /\ SeedPathsIn(c) = {k}
                                /\ Range(paths[k].pts) = c
                                /\ Len(paths[k].pts) = Cardinality(c)
                        ELSE SeedPathsIn(c) = {}

(* ------------------------ trace_path_from_point ---------------------- *)
\* an iteration of the while loop leaves visited and path alone or adds to
\* both one skeleton pixel that was in neither
AddsOnce ==
    pc = "trace" /\ pc' = "trace" =>
        \/ visited' = visited /\ path' = path
        \/ \E p \in skel :
              /\ p \notin visited
              /\ p \notin Range(path)
              /\ visited' = visited \cup {p}
              /\ path' = Append(path, p)

\* C29: trace_path_from_point terminates: the visited set only grows, a
\* skeleton pixel is added to visited and to the path at most once though
\* it may be in the queue several times, and the queue runs empty
C29_TraceTerminates ==
    /\ [][visited \subseteq visited' /\ AddsOnce]_vars
    /\ (pc = "trace") ~> (pc = "seed_loop" /\ queue = <<>>)

\* a trace has collected pixels and holds a pixel twice in its queue
C29_Witness ==
    /\ pc = "trace"
    /\ path # <<>>
    /\ \E a, b \in 1..Len(queue) : a < b /\ queue[a] = queue[b]

(* --------------------------- websocket handlers ---------------------- *)
\* C30: a handler that ends removes only its own registration: the open
\* websocket that registered last under a client id stays in
\* active_connections and in user_sessions and gets its replies, whatever
\* the handlers of older websockets of that client id do; and the two
\* dictionaries always have the same keys
C30_OwnRegistrationOnly ==
    /\ DOMAIN active_connections = DOMAIN user_sessions
    /\ \A ws \in WebSockets :
          (/\ ws_pc[ws] \in {"welcome", "receive", "handle"}
           /\ ws_open[ws]
           /\ latest[ws_client[ws]] = ws)
          => /\ ws_client[ws] \in DOMAIN active_connections
             /\ active_connections[ws_client[ws]] = ws
             /\ ws_client[ws] \in DOMAIN user_sessions
             /\ ws \notin lost

====
